---- MODULE Spec2Model ----
(***************************************************************************)
(* A model of the chat proxy's two core components:                        *)
(*   - MessageStore (src/modules/message_store.py): the bounded            *)
(*     conversation history with its separately held system directive;     *)
(*   - ChatHandler  (src/modules/chat_handler.py): provider ordering,      *)
(*     batch dispatch with fallback, streamed dispatch with fallback.      *)
(* Each component has its own specification over the shared variables:     *)
(*   SpecStore, SpecStoreOps, SpecBatch, SpecStream, SpecHandler;          *)
(* SpecConc runs two streamed chat requests of app.py against the one      *)
(* process-wide handler, SpecRace runs threads against one store.          *)
(* SpecChat runs the chat route of app.py, one request at a time, on one   *)
(* session's store and the handler; SpecSessions runs requests of several  *)
(* sessions against the session registry of app.py.                        *)
(***************************************************************************)
EXTENDS Integers, Sequences, FiniteSets, TLC

VARIABLES
    \* ---- MessageStore ----
    max_history,      \* self.max_history
    messages,         \* self.messages : deque(maxlen = max_history * 2), as a sequence
    system_message,   \* self.system_message : <<>> for None, <<m>> for the dict m
    log,              \* history variable: every entry appended to self.messages
                      \* since it was last empty by construction or clear()
    \* ---- ChatHandler ----
    cred,             \* constructor input: what each API key is
    provider_preference, \* self.provider_preference
    providers,        \* self.providers
    handler_ok,       \* FALSE when __init__ raised ValueError
    current_provider, \* self.current_provider
    current_model,    \* self.current_model
    \* ---- one get_response / stream_response call ----
    pc,               \* position of the call
    provider_order,   \* local provider_order
    idx,              \* index of the loop variable provider in provider_order
    errors,           \* local errors
    result,           \* value get_response returned
    escaped,          \* TRUE when an exception left the call
    calls,            \* history variable: adapters invoked by this call, in order
    behaviour,        \* environment: outcome of each adapter's completion call
    script,           \* environment: what each adapter's stream delivers
    pos,              \* chunks of the open stream already received
    yielded,          \* history variable: fragments handed to the consumer
    stream_open,      \* provider streams created and not yet released
    close_calls,      \* number of close() calls made on provider streams
    \* ---- calls on a store, seen from the caller ----
    last_op,          \* history variable: the last operation called on the store
    returned,         \* what that operation returned (<<"None">> for None)
    \* ---- concurrent work ----
    requests,         \* per streamed chat request: its position and locals
    threads,          \* per thread operating on the one store: position and locals
    \* ---- app.py ----
    route,            \* the chat request being served: its position and locals
    conversation_sessions, \* conversation_sessions: session id -> MessageStore object
    stores,           \* the MessageStore objects created so far, by identity
    workers           \* per request resolving its session: position and locals

storeVars == <<max_history, messages, system_message, log>>
handlerVars == <<cred, provider_preference, providers, handler_ok,
                 current_provider, current_model>>
callVars == <<pc, provider_order, idx, errors, result, escaped, calls,
              behaviour, script, pos, yielded, stream_open, close_calls>>
opVars == <<last_op, returned>>
appVars == <<route, conversation_sessions, stores, workers>>
vars == <<storeVars, handlerVars, callVars, opVars, requests, threads, appVars>>
exceptStore == <<handlerVars, callVars, opVars, requests, threads, appVars>>
exceptCall == <<storeVars, opVars, requests, threads, appVars>>

(***************************************************************************)
(* Bounds of the model.                                                    *)
(***************************************************************************)
MaxPairs == 2      \* largest max_history a store is built with
MaxLog == 5        \* most appends to the history between two clears
MaxChunks == 3     \* most chunks one provider stream delivers
MaxRaceLog == 3    \* most add_message calls the racing threads make together
MaxOpsLog == 3     \* most appends to the history when each call is recorded
MaxChatLog == 2    \* most appends to the history by requests of the chat route
MaxChatChunks == 1 \* most chunks a provider stream delivers to the chat route
SessionPairs == 1  \* max_history the sessions' stores are built with
MaxServed == 1     \* most requests one thread serves

Contents == {"a", "b"}
Roles == {"user", "assistant", "system"}

(***************************************************************************)
(* MessageStore                                                            *)
(***************************************************************************)
Msg(role, content) == [role |-> role, content |-> content]

\* deque(maxlen = n).append(x): x goes to the right end, and when the deque
\* is then longer than maxlen the leftmost element is dropped.
DequeAppendNoEvict(d, x, maxlen) == Append(d, x)
DequeAppendDropNewest(d, x, maxlen) ==
    IF Len(d) >= maxlen THEN d ELSE Append(d, x)
DequeAppend(d, x, maxlen) ==
    LET e == Append(d, x)
    IN IF Len(e) > maxlen THEN Tail(e) ELSE e

\* deque(maxlen = ...) raises ValueError for a negative maxlen.
StoreConstructed == max_history * 2 >= 0

Capacity == max_history * 2

\* set_system_message(content)
SetSystemMessageKeepingOld(content) ==
    system_message' = system_message \o <<Msg("system", content)>>
SetSystemMessageOp(content) ==
    system_message' = <<Msg("system", content)>>

SetSystemMessage(content) ==
    /\ StoreConstructed
    /\ SetSystemMessageOp(content)
    /\ UNCHANGED <<max_history, messages, log>>

\* add_system_message(content)
AddSystemMessageUnbounded(content) ==
    /\ StoreConstructed
    /\ Len(log) < MaxLog
    /\ messages' = DequeAppendNoEvict(messages, Msg("system", content), Capacity)
    /\ log' = Append(log, Msg("system", content))
    /\ UNCHANGED <<max_history, system_message>>
AddSystemMessage(content) ==
    /\ StoreConstructed
    /\ Len(log) < MaxLog
    /\ messages' = DequeAppend(messages, Msg("system", content), Capacity)
    /\ log' = Append(log, Msg("system", content))
    /\ UNCHANGED <<max_history, system_message>>

\* add_message(role, content)
AddMessageAnyRoleToHistory(role, content) ==
    /\ StoreConstructed
    /\ Len(log) < MaxLog
    /\ messages' = DequeAppend(messages, Msg(role, content), Capacity)
    /\ log' = Append(log, Msg(role, content))
    /\ UNCHANGED <<max_history, system_message>>
AddMessage(role, content) ==
    /\ StoreConstructed
    /\ IF role = "system"
       THEN /\ SetSystemMessageOp(content)
            /\ UNCHANGED <<max_history, messages, log>>
       ELSE /\ Len(log) < MaxLog
            /\ messages' = DequeAppend(messages, Msg(role, content), Capacity)
            /\ log' = Append(log, Msg(role, content))
            /\ UNCHANGED <<max_history, system_message>>

\* get_messages(): the directive when it is truthy (a dict with two keys is
\* always truthy, whatever its content), then the deque's entries.
GetMessagesDirectiveLast ==
    messages \o (IF system_message # <<>> THEN system_message ELSE <<>>)
get_messages ==
    (IF system_message # <<>> THEN system_message ELSE <<>>) \o messages

\* A call of get_messages(): the caller receives the list, the store is
\* not written.
GetMessagesCallMovingDirective ==
    /\ StoreConstructed
    /\ returned' = get_messages
    /\ messages' = get_messages
    /\ UNCHANGED <<max_history, system_message, log>>
GetMessagesCall ==
    /\ StoreConstructed
    /\ returned' = get_messages
    /\ UNCHANGED <<max_history, messages, system_message, log>>

\* clear()
ClearWithDirective ==
    /\ StoreConstructed
    /\ messages' = <<>>
    /\ system_message' = <<>>
    /\ log' = <<>>
    /\ UNCHANGED max_history
Clear ==
    /\ StoreConstructed
    /\ messages' = <<>>
    /\ log' = <<>>
    /\ UNCHANGED <<max_history, system_message>>

\* get_conversation_count()
get_conversation_count == Len(messages) \div 2

StoreInit ==
    /\ max_history \in -1..MaxPairs
    /\ messages = <<>>
    /\ system_message = <<>>
    /\ log = <<>>

(***************************************************************************)
(* ChatHandler: construction and provider ordering                         *)
(***************************************************************************)
ProviderNames == {"openai", "groq"}

\* What an API key passed to __init__ can be: None, the empty string, a key
\* the SDK client constructor rejects (it raises), a key it accepts.
KeyKinds == {"None", "empty", "bad", "good"}

\* `if openai_key:` : None and "" are falsy.
KeyGiven(k) == k \notin {"None", "empty"}

\* The provider argument of __init__, and str.lower() on it.
PreferenceInputs == {"auto", "openai", "groq", "OpenAI", "GROQ", "claude"}
Lower(s) ==
    CASE s = "OpenAI" -> "openai"
      [] s = "GROQ" -> "groq"
      [] OTHER -> s

\* Config.OPENAI_MODEL / Config.GROQ_MODEL defaults, passed by app.py.
ModelOf(p) == IF p = "openai" THEN "gpt-3.5-turbo" ELSE "llama-3.3-70b-versatile"

\* self.openai_client / self.groq_client is a client object (truthy) exactly
\* when the key was given and the SDK constructor did not raise.
ClientOf(c, p) == KeyGiven(c[p]) /\ c[p] = "good"

\* self.providers after __init__: 'openai' is appended first, then 'groq'.
InitProviders(c) ==
    (IF ClientOf(c, "openai") THEN <<"openai">> ELSE <<>>)
        \o (IF ClientOf(c, "groq") THEN <<"groq">> ELSE <<>>)

\* `if not self.providers: raise ValueError(...)`
InitRaisesOnAnyFailure(c) ==
    InitProviders(c) = <<>> \/ \E p \in ProviderNames : c[p] = "bad"
InitRaises(c) == InitProviders(c) = <<>>

HandlerInit ==
    /\ cred \in [ProviderNames -> KeyKinds]
    /\ provider_preference \in {Lower(x) : x \in PreferenceInputs}
    /\ providers = InitProviders(cred)
    /\ handler_ok = ~InitRaises(cred)
    /\ current_provider = "None"
    /\ current_model = "None"

Range(s) == {s[i] : i \in 1..Len(s)}

\* lambda x: 0 if x == 'groq' else 1
GroqFirstKey(x) == IF x = "groq" THEN 0 ELSE 1

\* sorted(seq, key=GroqFirstKey): Python's sort is stable; each element is
\* inserted after the last element whose key is not greater.
RECURSIVE InsertByKey(_, _)
InsertByKey(sorted, x) ==
    IF sorted = <<>> THEN <<x>>
    ELSE IF GroqFirstKey(x) < GroqFirstKey(sorted[Len(sorted)])
         THEN Append(InsertByKey(SubSeq(sorted, 1, Len(sorted) - 1), x),
                     sorted[Len(sorted)])
         ELSE Append(sorted, x)

RECURSIVE SortedByKey(_)
SortedByKey(seq) ==
    IF seq = <<>> THEN <<>>
    ELSE InsertByKey(SortedByKey(SubSeq(seq, 1, Len(seq) - 1)), seq[Len(seq)])

\* _get_provider_order()
ProviderOrderIgnoringPreference == SortedByKey(providers)
ProviderOrderRegistration ==
    LET NotOpenai(p) == p # "openai"
        NotGroq(p) == p # "groq"
    IN IF provider_preference = "openai" /\ "openai" \in Range(providers)
       THEN <<"openai">> \o SelectSeq(providers, NotOpenai)
       ELSE IF provider_preference = "groq" /\ "groq" \in Range(providers)
       THEN <<"groq">> \o SelectSeq(providers, NotGroq)
       ELSE providers
ProviderOrderPreferredTwice ==
    IF provider_preference = "openai" /\ "openai" \in Range(providers)
    THEN <<"openai">> \o providers
    ELSE IF provider_preference = "groq" /\ "groq" \in Range(providers)
    THEN <<"groq">> \o providers
    ELSE SortedByKey(providers)
get_provider_order ==
    LET NotOpenai(p) == p # "openai"
        NotGroq(p) == p # "groq"
    IN IF provider_preference = "openai" /\ "openai" \in Range(providers)
       THEN <<"openai">> \o SelectSeq(providers, NotOpenai)
       ELSE IF provider_preference = "groq" /\ "groq" \in Range(providers)
       THEN <<"groq">> \o SelectSeq(providers, NotGroq)
       ELSE SortedByKey(providers)

(***************************************************************************)
(* ChatHandler.get_response                                                *)
(***************************************************************************)
\* What one completion call of an adapter does: "ok", or the str(e) of the
\* exception it raises.
Outcomes == {"ok", "timeout", "rate limit"}

Apology == "Sorry, all AI services are currently unavailable. Please try again later."

NoResult == [success |-> "unset"]

\* The dict _try_groq / _try_openai return.
SuccessResult(p) ==
    [success |-> TRUE,
     message |-> "reply of " \o p,
     provider |-> p,
     model |-> ModelOf(p),
     usage |-> [prompt_tokens |-> 1, completion_tokens |-> 1, total_tokens |-> 2]]

\* " | ".join(errors)
RECURSIVE JoinBar(_)
JoinBar(es) ==
    IF es = <<>> THEN ""
    ELSE IF Len(es) = 1 THEN es[1]
    ELSE es[1] \o " | " \o JoinBar(Tail(es))

\* get_response, up to the loop: provider_order and errors are set.
GetResponseStart(b) ==
    /\ pc = "idle"
    /\ handler_ok
    /\ behaviour' = b
    /\ provider_order' = get_provider_order
    /\ errors' = <<>>
    /\ idx' = 1
    /\ pc' = "batch_loop"
    /\ UNCHANGED <<result, escaped, calls, script, pos, yielded, stream_open,
                   close_calls>>
    /\ UNCHANGED handlerVars

\* One iteration of `for provider in provider_order`.
GetResponseTryNoCatch ==
    /\ pc = "batch_loop"
    /\ idx <= Len(provider_order)
    /\ LET p == provider_order[idx]
       IN IF ClientOf(cred, p)
          THEN /\ calls' = Append(calls, p)
               /\ IF behaviour[p] = "ok"
                  THEN /\ result' = SuccessResult(p)
                       /\ pc' = "returned"
                       /\ UNCHANGED <<errors, idx, escaped>>
                  ELSE /\ escaped' = TRUE
                       /\ pc' = "returned"
                       /\ UNCHANGED <<result, errors, idx>>
          ELSE /\ idx' = idx + 1
               /\ UNCHANGED <<calls, result, pc, errors, escaped>>
    /\ UNCHANGED <<provider_order, behaviour, script, pos, yielded, stream_open,
                   close_calls>>
    /\ UNCHANGED handlerVars
GetResponseTryRetry ==
    /\ pc = "batch_loop"
    /\ idx <= Len(provider_order)
    /\ LET p == provider_order[idx]
       IN IF ClientOf(cred, p)
          THEN /\ calls' = Append(calls, p)
               /\ IF behaviour[p] = "ok"
                  THEN /\ result' = SuccessResult(p)
                       /\ pc' = "returned"
                       /\ UNCHANGED <<errors, idx>>
                  ELSE /\ errors' = Append(errors, p \o ": " \o behaviour[p])
                       /\ idx' = IF Len(calls') < 2 THEN idx ELSE idx + 1
                       /\ UNCHANGED <<result, pc>>
          ELSE /\ idx' = idx + 1
               /\ UNCHANGED <<calls, result, pc, errors>>
    /\ UNCHANGED <<provider_order, escaped, behaviour, script, pos, yielded,
                   stream_open, close_calls>>
    /\ UNCHANGED handlerVars
GetResponseTryKeepLastError ==
    /\ pc = "batch_loop"
    /\ idx <= Len(provider_order)
    /\ LET p == provider_order[idx]
       IN IF ClientOf(cred, p)
          THEN /\ calls' = Append(calls, p)
               /\ IF behaviour[p] = "ok"
                  THEN /\ result' = SuccessResult(p)
                       /\ pc' = "returned"
                       /\ UNCHANGED <<errors, idx>>
                  ELSE /\ errors' = <<p \o ": " \o behaviour[p]>>
                       /\ idx' = idx + 1
                       /\ UNCHANGED <<result, pc>>
          ELSE /\ idx' = idx + 1
               /\ UNCHANGED <<calls, result, pc, errors>>
    /\ UNCHANGED <<provider_order, escaped, behaviour, script, pos, yielded,
                   stream_open, close_calls>>
    /\ UNCHANGED handlerVars
GetResponseTry ==
    /\ pc = "batch_loop"
    /\ idx <= Len(provider_order)
    /\ LET p == provider_order[idx]
       IN IF ClientOf(cred, p)
          THEN \* _try_groq / _try_openai is called
               /\ calls' = Append(calls, p)
               /\ IF behaviour[p] = "ok"
                  THEN \* `return self._try_...(...)`
                       /\ result' = SuccessResult(p)
                       /\ pc' = "returned"
                       /\ UNCHANGED <<errors, idx>>
                  ELSE \* the adapter re-raises; `except Exception as e`
                       /\ errors' = Append(errors, p \o ": " \o behaviour[p])
                       /\ idx' = idx + 1
                       /\ UNCHANGED <<result, pc>>
          ELSE \* neither branch of the if/elif: next iteration
               /\ idx' = idx + 1
               /\ UNCHANGED <<calls, result, pc, errors>>
    /\ UNCHANGED <<provider_order, escaped, behaviour, script, pos, yielded,
                   stream_open, close_calls>>
    /\ UNCHANGED handlerVars

\* The loop has ended without a return: "All providers failed".
GetResponseAllFailed ==
    /\ pc = "batch_loop"
    /\ idx > Len(provider_order)
    /\ result' = [success |-> FALSE,
                  error |-> JoinBar(errors),
                  message |-> Apology]
    /\ pc' = "returned"
    /\ UNCHANGED <<provider_order, idx, errors, escaped, calls, behaviour,
                   script, pos, yielded, stream_open, close_calls>>
    /\ UNCHANGED handlerVars

(***************************************************************************)
(* ChatHandler.stream_response                                             *)
(***************************************************************************)
\* chunk.choices[0].delta.content of a chunk that carries no text.
NoneContent == "<None>"

ErrorFragment == "Error: All AI services are currently unavailable."

\* What the stream of one adapter does: create() raises, or the stream
\* delivers n chunks (chunk number `none`, if not 0, with content None) and
\* then ends ("ok") or raises ("raise").
StreamScripts ==
    {[n |-> 0, none |-> 0, end |-> "create_raises"]}
        \cup UNION {{[n |-> n, none |-> k, end |-> e] :
                        k \in 0..n, e \in {"ok", "raise"}} : n \in 0..MaxChunks}

ChunkContent(s, p, i) ==
    IF s[p].none = i THEN NoneContent ELSE p \o ToString(i)

\* A fragment handed to the consumer: its text, and who produced it.
Fragment(from, text) == [from |-> from, text |-> text]

\* stream_response is called and the consumer pulls for the first time:
\* provider_order is resolved.
StreamStart(s) ==
    /\ pc = "idle"
    /\ handler_ok
    /\ script' = s
    /\ provider_order' = get_provider_order
    /\ idx' = 1
    /\ pc' = "stream_loop"
    /\ UNCHANGED <<errors, result, escaped, calls, behaviour, pos, yielded,
                   stream_open, close_calls>>
    /\ UNCHANGED handlerVars

\* One iteration of `for provider in provider_order`, up to the stream loop:
\* the scratch fields are set and the stream is requested.
StreamOpen ==
    /\ pc = "stream_loop"
    /\ idx <= Len(provider_order)
    /\ LET p == provider_order[idx]
       IN IF ClientOf(cred, p)
          THEN /\ calls' = Append(calls, p)
               /\ IF script[p].end = "create_raises"
                  THEN \* create() raises; `except Exception as e`; continue
                       /\ current_provider' = "None"
                       /\ current_model' = "None"
                       /\ idx' = idx + 1
                       /\ UNCHANGED <<pc, pos, stream_open>>
                  ELSE /\ current_provider' = p
                       /\ current_model' = ModelOf(p)
                       /\ stream_open' = stream_open \cup {p}
                       /\ pos' = 0
                       /\ pc' = "streaming"
                       /\ UNCHANGED idx
          ELSE \* neither branch of the if/elif: next iteration
               /\ idx' = idx + 1
               /\ UNCHANGED <<calls, pc, pos, stream_open, current_provider,
                              current_model>>
    /\ UNCHANGED <<cred, provider_preference, providers, handler_ok>>
    /\ UNCHANGED <<provider_order, errors, result, escaped, behaviour, script,
                   yielded, close_calls>>

\* The consumer pulls: one step of `for chunk in stream`.
StreamNextNoClear ==
    /\ pc \in {"streaming", "suspended"}
    /\ LET p == provider_order[idx]
       IN IF pos < script[p].n
          THEN \* the stream delivers its next chunk
               /\ pos' = pos + 1
               /\ IF ChunkContent(script, p, pos + 1) # NoneContent
                  THEN /\ yielded' = Append(yielded,
                              Fragment(p, ChunkContent(script, p, pos + 1)))
                       /\ pc' = "suspended"
                  ELSE /\ pc' = "streaming"
                       /\ UNCHANGED yielded
               /\ UNCHANGED <<idx, stream_open, current_provider, current_model>>
          ELSE IF script[p].end = "raise"
          THEN \* the stream raises; `except Exception as e`; continue
               /\ UNCHANGED <<current_provider, current_model>>
               /\ idx' = idx + 1
               /\ pc' = "stream_loop"
               /\ stream_open' = stream_open \ {p}
               /\ UNCHANGED <<pos, yielded>>
          ELSE \* the stream is exhausted; `return`
               /\ pc' = "done"
               /\ stream_open' = stream_open \ {p}
               /\ UNCHANGED <<pos, yielded, idx, current_provider, current_model>>
    /\ UNCHANGED <<cred, provider_preference, providers, handler_ok>>
    /\ UNCHANGED <<provider_order, errors, result, escaped, calls, behaviour,
                   script, close_calls>>
StreamNextFallbackOnEmpty ==
    /\ pc \in {"streaming", "suspended"}
    /\ LET p == provider_order[idx]
           FromP(f) == f.from = p
       IN IF pos < script[p].n
          THEN /\ pos' = pos + 1
               /\ IF ChunkContent(script, p, pos + 1) # NoneContent
                  THEN /\ yielded' = Append(yielded,
                              Fragment(p, ChunkContent(script, p, pos + 1)))
                       /\ pc' = "suspended"
                  ELSE /\ pc' = "streaming"
                       /\ UNCHANGED yielded
               /\ UNCHANGED <<idx, stream_open, current_provider, current_model>>
          ELSE IF script[p].end = "raise" \/ SelectSeq(yielded, FromP) = <<>>
          THEN /\ current_provider' = "None"
               /\ current_model' = "None"
               /\ idx' = idx + 1
               /\ pc' = "stream_loop"
               /\ stream_open' = stream_open \ {p}
               /\ UNCHANGED <<pos, yielded>>
          ELSE /\ pc' = "done"
               /\ stream_open' = stream_open \ {p}
               /\ UNCHANGED <<pos, yielded, idx, current_provider, current_model>>
    /\ UNCHANGED <<cred, provider_preference, providers, handler_ok>>
    /\ UNCHANGED <<provider_order, errors, result, escaped, calls, behaviour,
                   script, close_calls>>
StreamNext ==
    /\ pc \in {"streaming", "suspended"}
    /\ LET p == provider_order[idx]
       IN IF pos < script[p].n
          THEN \* the stream delivers its next chunk
               /\ pos' = pos + 1
               /\ IF ChunkContent(script, p, pos + 1) # NoneContent
                  THEN /\ yielded' = Append(yielded,
                              Fragment(p, ChunkContent(script, p, pos + 1)))
                       /\ pc' = "suspended"
                  ELSE /\ pc' = "streaming"
                       /\ UNCHANGED yielded
               /\ UNCHANGED <<idx, stream_open, current_provider, current_model>>
          ELSE IF script[p].end = "raise"
          THEN \* the stream raises; `except Exception as e`; continue
               /\ current_provider' = "None"
                    /\ current_model' = "None"
               /\ idx' = idx + 1
               /\ pc' = "stream_loop"
               /\ stream_open' = stream_open \ {p}
               /\ UNCHANGED <<pos, yielded>>
          ELSE \* the stream is exhausted; `return`
               /\ pc' = "done"
               /\ stream_open' = stream_open \ {p}
               /\ UNCHANGED <<pos, yielded, idx, current_provider, current_model>>
    /\ UNCHANGED <<cred, provider_preference, providers, handler_ok>>
    /\ UNCHANGED <<provider_order, errors, result, escaped, calls, behaviour,
                   script, close_calls>>

\* The loop has ended without a return: "All providers failed".
StreamAllFailedNoSentinel ==
    /\ pc = "stream_loop"
    /\ idx > Len(provider_order)
    /\ UNCHANGED <<current_provider, current_model>>
    /\ yielded' = Append(yielded, Fragment("dispatcher", ErrorFragment))
    /\ pc' = "done"
    /\ UNCHANGED <<cred, provider_preference, providers, handler_ok>>
    /\ UNCHANGED <<provider_order, idx, errors, result, escaped, calls,
                   behaviour, script, pos, stream_open, close_calls>>
StreamAllFailed ==
    /\ pc = "stream_loop"
    /\ idx > Len(provider_order)
    /\ current_provider' = "error"
    /\ current_model' = "none"
    /\ yielded' = Append(yielded, Fragment("dispatcher", ErrorFragment))
    /\ pc' = "done"
    /\ UNCHANGED <<cred, provider_preference, providers, handler_ok>>
    /\ UNCHANGED <<provider_order, idx, errors, result, escaped, calls,
                   behaviour, script, pos, stream_open, close_calls>>

\* The consumer closes the generator while it is suspended at a yield of the
\* stream loop: GeneratorExit is raised there. It is no Exception, so the
\* except clause does not run, and there is no finally or with around the
\* stream: stream_response makes no close() call. The local `stream` goes away
\* with the generator's frame; whether the provider object then lets go of its
\* connection is up to the SDK and the runtime, so both outcomes are possible.
StreamCancel ==
    /\ pc = "suspended"
    /\ pc' = "cancelled"
    /\ \E released \in BOOLEAN :
          stream_open' = IF released
                         THEN stream_open \ {provider_order[idx]}
                         ELSE stream_open
    /\ UNCHANGED close_calls
    /\ UNCHANGED <<provider_order, idx, errors, result, escaped, calls,
                   behaviour, script, pos, yielded>>
    /\ UNCHANGED handlerVars

\* The call is over; the handler, with its scratch fields, serves the next one.
StreamReturn ==
    /\ pc \in {"done", "cancelled"}
    /\ pc' = "idle"
    /\ provider_order' = <<>>
    /\ idx' = 0
    /\ calls' = <<>>
    /\ script' = <<>>
    /\ pos' = 0
    /\ yielded' = <<>>
    /\ stream_open' = {}
    /\ UNCHANGED <<errors, result, escaped, behaviour, close_calls>>
    /\ UNCHANGED handlerVars

(***************************************************************************)
(* Streamed chat requests running concurrently (app.py runs Flask's        *)
(* threaded server): each request runs stream_chat_response.generate, which *)
(* iterates chat_handler.stream_response and then reads the handler's      *)
(* scratch fields. chat_handler is one object for the whole process, so     *)
(* current_provider / current_model are shared; every read and write of     *)
(* them is a step of its own.                                               *)
(***************************************************************************)
Requests == {1, 2}

\* Streams of the concurrent requests: create() raises, or one chunk is
\* delivered and the stream then ends or raises.
ConcScripts == {s \in StreamScripts : s.none = 0 /\ (s.n = 1 \/ s.end = "create_raises")}

NoLabel == [provider |-> "unknown", model |-> "unknown"]

RequestIdle ==
    [pc |-> "idle", order |-> <<>>, idx |-> 0, script |-> <<>>, pos |-> 0,
     served |-> NoLabel, label |-> NoLabel]

Req(r) == requests[r]
ReqProvider(r) == Req(r).order[Req(r).idx]
SetReq(r, rec) == requests' = [requests EXCEPT ![r] = rec]

\* generate() starts iterating stream_response: provider_order is resolved.
ReqStart(r, s) ==
    /\ Req(r).pc = "idle"
    /\ handler_ok
    /\ SetReq(r, [Req(r) EXCEPT !.pc = "loop", !.order = get_provider_order,
                                !.idx = 1, !.script = s])
    /\ UNCHANGED handlerVars

\* self.current_provider = 'groq' / 'openai'
ReqSetProvider(r) ==
    /\ Req(r).pc = "loop"
    /\ Req(r).idx <= Len(Req(r).order)
    /\ IF ClientOf(cred, ReqProvider(r))
       THEN /\ current_provider' = ReqProvider(r)
            /\ SetReq(r, [Req(r) EXCEPT !.pc = "set_model"])
       ELSE /\ SetReq(r, [Req(r) EXCEPT !.idx = @ + 1])
            /\ UNCHANGED current_provider
    /\ UNCHANGED <<cred, provider_preference, providers, handler_ok, current_model>>

\* self.current_model = self.groq_model / self.openai_model
ReqSetModel(r) ==
    /\ Req(r).pc = "set_model"
    /\ current_model' = ModelOf(ReqProvider(r))
    /\ SetReq(r, [Req(r) EXCEPT !.pc = "create"])
    /\ UNCHANGED <<cred, provider_preference, providers, handler_ok, current_provider>>

\* stream = client.chat.completions.create(..., stream=True)
ReqCreate(r) ==
    /\ Req(r).pc = "create"
    /\ IF Req(r).script[ReqProvider(r)].end = "create_raises"
       THEN SetReq(r, [Req(r) EXCEPT !.pc = "clear_provider"])
       ELSE SetReq(r, [Req(r) EXCEPT !.pc = "streaming", !.pos = 0])
    /\ UNCHANGED handlerVars

\* One step of `for chunk in stream`; generate() forwards every fragment.
\* When the stream is exhausted stream_response returns: this adapter has
\* served the request.
ReqNext(r) ==
    /\ Req(r).pc = "streaming"
    /\ LET sc == Req(r).script[ReqProvider(r)]
       IN IF Req(r).pos < sc.n
          THEN SetReq(r, [Req(r) EXCEPT !.pos = @ + 1])
          ELSE IF sc.end = "raise"
          THEN SetReq(r, [Req(r) EXCEPT !.pc = "clear_provider"])
          ELSE SetReq(r, [Req(r) EXCEPT
                  !.pc = "read_provider",
                  !.served = [provider |-> ReqProvider(r),
                              model |-> ModelOf(ReqProvider(r))]])
    /\ UNCHANGED handlerVars

\* except Exception: self.current_provider = None
ReqClearProvider(r) ==
    /\ Req(r).pc = "clear_provider"
    /\ current_provider' = "None"
    /\ SetReq(r, [Req(r) EXCEPT !.pc = "clear_model"])
    /\ UNCHANGED <<cred, provider_preference, providers, handler_ok, current_model>>

\* self.current_model = None; continue
ReqClearModel(r) ==
    /\ Req(r).pc = "clear_model"
    /\ current_model' = "None"
    /\ SetReq(r, [Req(r) EXCEPT !.pc = "loop", !.idx = @ + 1])
    /\ UNCHANGED <<cred, provider_preference, providers, handler_ok, current_provider>>

\* All providers failed: self.current_provider = 'error'
ReqSentinelProvider(r) ==
    /\ Req(r).pc = "loop"
    /\ Req(r).idx > Len(Req(r).order)
    /\ current_provider' = "error"
    /\ SetReq(r, [Req(r) EXCEPT !.pc = "sentinel_model"])
    /\ UNCHANGED <<cred, provider_preference, providers, handler_ok, current_model>>

\* self.current_model = 'none'; yield the error fragment; the generator ends
ReqSentinelModel(r) ==
    /\ Req(r).pc = "sentinel_model"
    /\ current_model' = "none"
    /\ SetReq(r, [Req(r) EXCEPT
          !.pc = "read_provider",
          !.served = [provider |-> "error", model |-> "none"]])
    /\ UNCHANGED <<cred, provider_preference, providers, handler_ok, current_provider>>

\* generate(): provider = chat_handler.current_provider
ReqReadProvider(r) ==
    /\ Req(r).pc = "read_provider"
    /\ SetReq(r, [Req(r) EXCEPT !.pc = "read_model",
                                !.label.provider = current_provider])
    /\ UNCHANGED handlerVars

\* generate(): model = chat_handler.current_model; the end event carries both
ReqReadModel(r) ==
    /\ Req(r).pc = "read_model"
    /\ SetReq(r, [Req(r) EXCEPT !.pc = "ended",
                                !.label.model = current_model])
    /\ UNCHANGED handlerVars

(***************************************************************************)
(* Threads of one session operating on the same MessageStore: two threads  *)
(* call add_message with a non-system role, one calls get_messages. There   *)
(* is no lock in the store. Each method is split where the interpreter can  *)
(* switch threads; deque.append and list(deque) are single calls into C     *)
(* code that run to completion under the interpreter lock.                  *)
(***************************************************************************)
Writers == {"w1", "w2"}
Reader == "rd"

WriterIdle == [pc |-> "idle", entry |-> <<>>, completed |-> 0]
ReaderIdle == [pc |-> "idle", msgs |-> <<>>, result |-> <<>>, seen |-> {}]

SetThread(t, rec) == threads' = [threads EXCEPT ![t] = rec]

PendingAppends == Cardinality({w \in Writers : threads[w].pc = "built"})

\* add_message(role, content), role not "system": the else branch is taken
\* and the dict {"role": role, "content": content} is built.
WriterBuild(w, role, content) ==
    /\ StoreConstructed
    /\ role # "system"
    /\ threads[w].pc = "idle"
    /\ Len(log) + PendingAppends < MaxRaceLog
    /\ SetThread(w, [threads[w] EXCEPT !.pc = "built",
                                       !.entry = Msg(role, content)])
    /\ UNCHANGED storeVars

\* self.messages.append(<the dict>); add_message returns. A get_messages in
\* progress now has one more state of the store it may report.
WriterAppendPartial(w) ==
    /\ threads[w].pc = "built"
    /\ messages' = DequeAppend(messages,
                               Msg(threads[w].entry.role, "<unset>"), Capacity)
    /\ log' = Append(log, threads[w].entry)
    /\ threads' = [threads EXCEPT
          ![w] = [@ EXCEPT !.pc = "idle", !.completed = @ + 1],
          ![Reader] = [@ EXCEPT !.seen =
              IF threads[Reader].pc \in {"idle", "done"} THEN @
              ELSE @ \cup {system_message \o messages'}]]
    /\ UNCHANGED <<max_history, system_message>>
WriterAppend(w) ==
    /\ threads[w].pc = "built"
    /\ messages' = DequeAppend(messages, threads[w].entry, Capacity)
    /\ log' = Append(log, threads[w].entry)
    /\ threads' = [threads EXCEPT
          ![w] = [@ EXCEPT !.pc = "idle", !.completed = @ + 1],
          ![Reader] = [@ EXCEPT !.seen =
              IF threads[Reader].pc \in {"idle", "done"} THEN @
              ELSE @ \cup {system_message \o messages'}]]
    /\ UNCHANGED <<max_history, system_message>>

\* get_messages(): messages = []
ReaderStart ==
    /\ StoreConstructed
    /\ threads[Reader].pc = "idle"
    /\ SetThread(Reader, [pc |-> "test", msgs |-> <<>>, result |-> <<>>,
                          seen |-> {get_messages}])
    /\ UNCHANGED storeVars

\* if self.system_message:
ReaderTest ==
    /\ threads[Reader].pc = "test"
    /\ SetThread(Reader, [threads[Reader] EXCEPT
          !.pc = IF system_message # <<>> THEN "append" ELSE "extend"])
    /\ UNCHANGED storeVars

\* messages.append(self.system_message)
ReaderAppendDirective ==
    /\ threads[Reader].pc = "append"
    /\ SetThread(Reader, [threads[Reader] EXCEPT
          !.pc = "extend", !.msgs = @ \o system_message])
    /\ UNCHANGED storeVars

\* messages.extend(list(self.messages)); return messages
ReaderExtendTorn ==
    /\ threads[Reader].pc = "extend"
    /\ LET seenNow == IF messages = <<>> THEN <<>>
                      ELSE SubSeq(messages, 1, Len(messages) - 1)
       IN SetThread(Reader, [threads[Reader] EXCEPT
             !.pc = "done",
             !.msgs = @ \o seenNow,
             !.result = threads[Reader].msgs \o seenNow])
    /\ UNCHANGED storeVars
ReaderExtend ==
    /\ threads[Reader].pc = "extend"
    /\ SetThread(Reader, [threads[Reader] EXCEPT
          !.pc = "done",
          !.msgs = @ \o messages,
          !.result = threads[Reader].msgs \o messages])
    /\ UNCHANGED storeVars

\* The caller has the list; the thread may call get_messages again.
ReaderReturn ==
    /\ threads[Reader].pc = "done"
    /\ SetThread(Reader, [ReaderIdle EXCEPT !.result = threads[Reader].result])
    /\ UNCHANGED storeVars

(***************************************************************************)
(* The chat route of app.py, one request at a time on one session: the     *)
(* store variables are the session's MessageStore, the call variables are   *)
(* the get_response / stream_response call the request makes.              *)
(***************************************************************************)
\* The message of a request: plain text, or the notice the page sends after
\* an upload. user_message.startswith("I've uploaded a file named")
FileNotice == "I've uploaded a file named a"
UserMessages == Contents \cup {FileNotice}
IsFileMessage(u) == u = FileNotice

\* file_context
FileContext ==
    Msg("system",
        "The user has uploaded a file. You can analyze text files, images, and other documents. "
        \o "For text files, you can discuss the content. For images, you can describe what you see. "
        \o "For other files, you can discuss the file type and potential uses.")

\* The object get_messages() returns: `messages = []` is a list of its own,
\* and list(self.messages) copies the deque into it.
GetMessagesReturnsHistory == "history"
GetMessagesResultObject == "new list"

\* Streams offered to the requests of the route.
ChatScripts == {s \in StreamScripts : s.n <= MaxChatChunks}

RouteRest ==
    [pc |-> "idle", user_message |-> "", stream |-> FALSE,
     is_file_message |-> FALSE, messages |-> <<>>, list_object |-> "none",
     full_response |-> "", status |-> 0]

\* chat(), up to the snapshot: the message is read, the session's store is
\* fetched, the user turn is appended unless it is a file notice, and
\* messages = message_store.get_messages()
ChatPrepareSnapshotFirst(u, st) ==
    /\ route.pc = "idle"
    /\ pc = "idle"
    /\ handler_ok
    /\ StoreConstructed
    /\ Len(log) + 2 <= MaxChatLog
    /\ IF IsFileMessage(u)
       THEN UNCHANGED storeVars
       ELSE AddMessage("user", u)
    /\ route' = [RouteRest EXCEPT
          !.pc = IF IsFileMessage(u) THEN "context" ELSE "dispatch",
          !.user_message = u,
          !.stream = st,
          !.is_file_message = IsFileMessage(u),
          !.messages = get_messages,
          !.list_object = GetMessagesResultObject]
ChatPrepare(u, st) ==
    /\ route.pc = "idle"
    /\ pc = "idle"
    /\ handler_ok
    /\ StoreConstructed
    /\ Len(log) + 2 <= MaxChatLog
    /\ IF IsFileMessage(u)
       THEN UNCHANGED storeVars
       ELSE AddMessage("user", u)
    /\ route' = [RouteRest EXCEPT
          !.pc = IF IsFileMessage(u) THEN "context" ELSE "dispatch",
          !.user_message = u,
          !.stream = st,
          !.is_file_message = IsFileMessage(u),
          !.messages = get_messages',
          !.list_object = GetMessagesResultObject]

\* messages.append(file_context): the list object is appended to; when that
\* object is the store's history, the history has the entry too.
ChatAppendFileContext ==
    /\ route.pc = "context"
    /\ route' = [route EXCEPT !.pc = "dispatch",
                              !.messages = Append(@, FileContext)]
    /\ IF route.list_object = "history"
       THEN /\ messages' = DequeAppend(messages, FileContext, Capacity)
            /\ UNCHANGED <<max_history, system_message, log>>
       ELSE UNCHANGED storeVars

\* response = chat_handler.get_response(messages, temperature)
ChatGetResponse(b) ==
    /\ route.pc = "dispatch"
    /\ ~route.stream
    /\ GetResponseStart(b)
    /\ route' = [route EXCEPT !.pc = "in_call"]

\* if response['success']: the reply is appended and sent with status 200;
\* else the error is sent with status 500.
ChatRespondAlwaysAppends ==
    /\ route.pc = "in_call"
    /\ pc = "returned"
    /\ AddMessage("assistant", result.message)
    /\ route' = [route EXCEPT !.pc = "idle",
                              !.status = IF result.success THEN 200 ELSE 500]
    /\ pc' = "idle"
    /\ provider_order' = <<>>
    /\ idx' = 0
    /\ errors' = <<>>
    /\ result' = NoResult
    /\ calls' = <<>>
    /\ behaviour' = <<>>
    /\ UNCHANGED <<escaped, script, pos, yielded, stream_open, close_calls>>
ChatRespond ==
    /\ route.pc = "in_call"
    /\ pc = "returned"
    /\ IF result.success
       THEN AddMessage("assistant", result.message)
       ELSE UNCHANGED storeVars
    /\ route' = [route EXCEPT !.pc = "idle",
                              !.status = IF result.success THEN 200 ELSE 500]
    /\ pc' = "idle"
    /\ provider_order' = <<>>
    /\ idx' = 0
    /\ errors' = <<>>
    /\ result' = NoResult
    /\ calls' = <<>>
    /\ behaviour' = <<>>
    /\ UNCHANGED <<escaped, script, pos, yielded, stream_open, close_calls>>

\* stream_chat_response.generate(): full_response = ""; the start event; the
\* loop over chat_handler.stream_response(messages, temperature) begins.
GenerateStart(s) ==
    /\ route.pc = "dispatch"
    /\ route.stream
    /\ StreamStart(s)
    /\ route' = [route EXCEPT !.pc = "in_stream", !.full_response = ""]

\* full_response += chunk, for the fragment the generator has just yielded.
AccumulatedLastProviderOnly(full_response, before, after) ==
    IF Len(after) > Len(before)
    THEN IF Len(before) > 0 /\ before[Len(before)].from # after[Len(after)].from
         THEN after[Len(after)].text
         ELSE full_response \o after[Len(after)].text
    ELSE full_response
Accumulated(full_response, before, after) ==
    IF Len(after) > Len(before)
    THEN full_response \o after[Len(after)].text
    ELSE full_response

GenerateOpen ==
    /\ route.pc = "in_stream"
    /\ StreamOpen
    /\ UNCHANGED route

GenerateNext ==
    /\ route.pc = "in_stream"
    /\ StreamNext
    /\ route' = [route EXCEPT
          !.full_response = Accumulated(@, yielded, yielded')]

GenerateAllFailed ==
    /\ route.pc = "in_stream"
    /\ StreamAllFailed
    /\ route' = [route EXCEPT
          !.full_response = Accumulated(@, yielded, yielded')]

\* The client goes away while a chunk event is being sent: generate() is
\* closed at its yield, and with it the stream_response generator.
GenerateCancel ==
    /\ route.pc = "in_stream"
    /\ StreamCancel
    /\ UNCHANGED route

GenerateAbandoned ==
    /\ route.pc = "in_stream"
    /\ pc = "cancelled"
    /\ StreamReturn
    /\ route' = [route EXCEPT !.pc = "idle", !.status = 0]

\* The loop has ended: message_store.add_message("assistant", full_response)
\* and the end event.
GenerateEnd ==
    /\ route.pc = "in_stream"
    /\ pc = "done"
    /\ StreamReturn
    /\ AddMessage("assistant", route.full_response)
    /\ route' = [route EXCEPT !.pc = "idle", !.status = 200]

(***************************************************************************)
(* The session registry of app.py: conversation_sessions maps a session id *)
(* to a MessageStore object. Requests run on the threads of Flask's server; *)
(* each resolves its session with get_or_create_session, whose statements   *)
(* are steps of their own, and then calls the methods of the store it got.  *)
(* MessageStore objects live in `stores`, an object is its index there.     *)
(***************************************************************************)
SessionIds == {"s1", "s2"}
WorkerIds == {1, 2}

\* Config.SYSTEM_MESSAGE
SYSTEM_MESSAGE == "You are a helpful, friendly, and knowledgeable AI assistant."

\* MessageStore(max_history): an object with a deque and a directive of its own.
NewStore(n) ==
    [max_history |-> n, messages |-> <<>>, system_message |-> <<>>, log |-> <<>>]

\* The methods of MessageStore, on the object st.
StoreSetSystemMessage(st, content) ==
    [st EXCEPT !.system_message = <<Msg("system", content)>>]
StoreAddSystemMessage(st, content) ==
    [st EXCEPT
        !.messages = DequeAppend(@, Msg("system", content), st.max_history * 2),
        !.log = Append(@, Msg("system", content))]
StoreAddMessage(st, role, content) ==
    IF role = "system"
    THEN StoreSetSystemMessage(st, content)
    ELSE [st EXCEPT
            !.messages = DequeAppend(@, Msg(role, content), st.max_history * 2),
            !.log = Append(@, Msg(role, content))]
StoreClear(st) == [st EXCEPT !.messages = <<>>, !.log = <<>>]
StoreGetMessages(st) ==
    (IF st.system_message # <<>> THEN st.system_message ELSE <<>>) \o st.messages

\* The store calls a request makes after it has its session's store.
\* chat: the user turn and the reply; upload: the file info and the file's
\* content; clear: clear().
RouteKinds == {"chat", "upload", "clear"}
Call(method, role, content) ==
    [method |-> method, role |-> role, content |-> content]
RouteCalls(kind, c) ==
    CASE kind = "chat" ->
            <<Call("add_message", "user", c),
              Call("add_message", "assistant", "reply to " \o c)>>
      [] kind = "upload" ->
            <<Call("add_message", "user", "[Uploaded file: " \o c \o "]"),
              Call("add_system_message", "system",
                   "Content of the uploaded file '" \o c \o "'")>>
      [] OTHER -> <<Call("clear", "", "")>>
ApplyCall(st, call) ==
    CASE call.method = "add_message" ->
            StoreAddMessage(st, call.role, call.content)
      [] call.method = "add_system_message" ->
            StoreAddSystemMessage(st, call.content)
      [] OTHER -> StoreClear(st)

WorkerRest ==
    [pc |-> "idle", sid |-> "", message_store |-> 0, store |-> 0, todo |-> <<>>,
     served |-> 0]

\* The text a request carries: it names the session and the thread.
TextOf(w, sid) == sid \o "/" \o ToString(w)

Worker(w) == workers[w]
SetWorker(w, rec) == workers' = [workers EXCEPT ![w] = rec]

Registered == DOMAIN conversation_sessions

\* A request with session id sid arrives; get_or_create_session:
\* `if session_id not in conversation_sessions:`
GocCheck(w, sid, kind) ==
    /\ Worker(w).pc = "idle"
    /\ Worker(w).served < MaxServed
    /\ SetWorker(w, [WorkerRest EXCEPT
          !.pc = IF sid \notin Registered THEN "construct" ELSE "fetch",
          !.sid = sid,
          !.todo = RouteCalls(kind, TextOf(w, sid)),
          !.served = Worker(w).served + 1])
    /\ UNCHANGED <<conversation_sessions, stores>>

\* message_store = MessageStore(max_history=Config.MAX_CONVERSATION_HISTORY)
GocConstructShared(w) ==
    /\ Worker(w).pc = "construct"
    /\ IF stores = <<>>
       THEN /\ stores' = Append(stores, NewStore(SessionPairs))
            /\ SetWorker(w, [Worker(w) EXCEPT !.pc = "set_directive",
                                              !.message_store = Len(stores) + 1])
       ELSE /\ stores' = stores
            /\ SetWorker(w, [Worker(w) EXCEPT !.pc = "set_directive",
                                              !.message_store = 1])
    /\ UNCHANGED conversation_sessions
GocConstruct(w) ==
    /\ Worker(w).pc = "construct"
    /\ stores' = Append(stores, NewStore(SessionPairs))
    /\ SetWorker(w, [Worker(w) EXCEPT !.pc = "set_directive",
                                      !.message_store = Len(stores) + 1])
    /\ UNCHANGED conversation_sessions

\* message_store.set_system_message(Config.SYSTEM_MESSAGE)
GocSetDirective(w) ==
    /\ Worker(w).pc = "set_directive"
    /\ stores' = [stores EXCEPT ![Worker(w).message_store] =
                     StoreSetSystemMessage(@, SYSTEM_MESSAGE)]
    /\ SetWorker(w, [Worker(w) EXCEPT !.pc = "register"])
    /\ UNCHANGED conversation_sessions

\* conversation_sessions[session_id] = message_store
GocRegister(w) ==
    /\ Worker(w).pc = "register"
    /\ conversation_sessions' =
          [s \in Registered \cup {Worker(w).sid} |->
              IF s = Worker(w).sid THEN Worker(w).message_store
              ELSE conversation_sessions[s]]
    /\ SetWorker(w, [Worker(w) EXCEPT !.pc = "fetch"])
    /\ UNCHANGED stores

\* return conversation_sessions[session_id]
GocFetch(w) ==
    /\ Worker(w).pc = "fetch"
    /\ SetWorker(w, [Worker(w) EXCEPT
          !.pc = "act",
          !.store = conversation_sessions[Worker(w).sid]])
    /\ UNCHANGED <<conversation_sessions, stores>>

\* The route calls the next method on the store it holds.
RouteCall(w) ==
    /\ Worker(w).pc = "act"
    /\ Worker(w).todo # <<>>
    /\ stores' = [stores EXCEPT ![Worker(w).store] =
                     ApplyCall(@, Head(Worker(w).todo))]
    /\ SetWorker(w, [Worker(w) EXCEPT !.todo = Tail(@)])
    /\ UNCHANGED conversation_sessions

\* The response is sent; the thread serves the next request.
RouteDone(w) ==
    /\ Worker(w).pc = "act"
    /\ Worker(w).todo = <<>>
    /\ SetWorker(w, [Worker(w) EXCEPT !.pc = "idle"])
    /\ UNCHANGED <<conversation_sessions, stores>>

(***************************************************************************)
(* Values the variables of the other components hold while one component   *)
(* is studied alone.                                                       *)
(***************************************************************************)
StoreIdle ==
    /\ max_history = 1
    /\ messages = <<>>
    /\ system_message = <<>>
    /\ log = <<>>

HandlerIdle ==
    /\ cred = <<>>
    /\ provider_preference = "auto"
    /\ providers = <<>>
    /\ handler_ok = FALSE
    /\ current_provider = "None"
    /\ current_model = "None"

CallIdle ==
    /\ pc = "idle"
    /\ provider_order = <<>>
    /\ idx = 0
    /\ errors = <<>>
    /\ result = NoResult
    /\ escaped = FALSE
    /\ calls = <<>>
    /\ behaviour = <<>>
    /\ script = <<>>
    /\ pos = 0
    /\ yielded = <<>>
    /\ stream_open = {}
    /\ close_calls = 0

OpsIdle ==
    /\ last_op = <<"none">>
    /\ returned = <<"None">>

ConcIdle == requests = <<>>

RaceIdle == threads = <<>>

RouteIdle == route = <<>>

SessionsIdle ==
    /\ conversation_sessions = <<>>
    /\ stores = <<>>
    /\ workers = <<>>

AppIdle == RouteIdle /\ SessionsIdle

SpecStoreInit ==
    /\ StoreInit /\ HandlerIdle /\ CallIdle /\ OpsIdle /\ ConcIdle /\ RaceIdle
    /\ AppIdle
SpecStoreNext ==
    \/ \E c \in Contents :
          SetSystemMessage(c) /\ UNCHANGED exceptStore
    \/ \E c \in Contents :
          AddSystemMessage(c) /\ UNCHANGED exceptStore
    \/ \E r \in Roles, c \in Contents :
          AddMessage(r, c) /\ UNCHANGED exceptStore
    \/ Clear /\ UNCHANGED exceptStore
SpecStore == SpecStoreInit /\ [][SpecStoreNext]_vars

\* The store with every call recorded: which operation was called last and
\* what it returned.
exceptStoreOps == <<handlerVars, callVars, requests, threads, appVars>>
ReturnsNone == returned' = <<"None">>
SpecStoreOpsNext ==
    \/ \E c \in Contents :
          /\ SetSystemMessage(c)
          /\ last_op' = <<"set_system_message", c>>
          /\ ReturnsNone /\ UNCHANGED exceptStoreOps
    \/ \E c \in Contents :
          /\ Len(log) < MaxOpsLog
          /\ AddSystemMessage(c)
          /\ last_op' = <<"add_system_message", c>>
          /\ ReturnsNone /\ UNCHANGED exceptStoreOps
    \/ \E r \in Roles, c \in Contents :
          /\ r # "system" => Len(log) < MaxOpsLog
          /\ AddMessage(r, c)
          /\ last_op' = <<"add_message", r, c>>
          /\ ReturnsNone /\ UNCHANGED exceptStoreOps
    \/ /\ Clear
       /\ last_op' = <<"clear">>
       /\ ReturnsNone /\ UNCHANGED exceptStoreOps
    \/ /\ GetMessagesCall
       /\ last_op' = <<"get_messages">>
       /\ UNCHANGED exceptStoreOps
SpecStoreOps == SpecStoreInit /\ [][SpecStoreOpsNext]_vars

SpecBatchInit ==
    /\ StoreIdle /\ HandlerInit /\ CallIdle /\ OpsIdle /\ ConcIdle /\ RaceIdle
    /\ AppIdle
SpecBatchNext ==
    \/ \E b \in [ProviderNames -> Outcomes] :
          GetResponseStart(b) /\ UNCHANGED exceptCall
    \/ GetResponseTry /\ UNCHANGED exceptCall
    \/ GetResponseAllFailed /\ UNCHANGED exceptCall
SpecBatch == SpecBatchInit /\ [][SpecBatchNext]_vars

SpecStreamInit ==
    /\ StoreIdle /\ HandlerInit /\ CallIdle /\ OpsIdle /\ ConcIdle /\ RaceIdle
    /\ AppIdle
SpecStreamNext ==
    \/ \E s \in [ProviderNames -> StreamScripts] :
          StreamStart(s) /\ UNCHANGED exceptCall
    \/ StreamOpen /\ UNCHANGED exceptCall
    \/ StreamNext /\ UNCHANGED exceptCall
    \/ StreamAllFailed /\ UNCHANGED exceptCall
    \/ StreamCancel /\ UNCHANGED exceptCall
    \/ StreamReturn /\ UNCHANGED exceptCall
SpecStream == SpecStreamInit /\ [][SpecStreamNext]_vars

\* The handler serving calls of either kind.
SpecHandlerNext ==
    \/ \E b \in [ProviderNames -> Outcomes] :
          GetResponseStart(b) /\ UNCHANGED exceptCall
    \/ GetResponseTry /\ UNCHANGED exceptCall
    \/ GetResponseAllFailed /\ UNCHANGED exceptCall
    \/ \E s \in [ProviderNames -> StreamScripts] :
          StreamStart(s) /\ UNCHANGED exceptCall
    \/ StreamOpen /\ UNCHANGED exceptCall
    \/ StreamNext /\ UNCHANGED exceptCall
    \/ StreamAllFailed /\ UNCHANGED exceptCall
    \/ StreamCancel /\ UNCHANGED exceptCall
    \/ StreamReturn /\ UNCHANGED exceptCall
SpecHandler == SpecBatchInit /\ [][SpecHandlerNext]_vars

\* Two streamed requests against a handler built from each combination of
\* keys: no key, or a working key.
SpecConcInit ==
    /\ StoreIdle /\ CallIdle /\ OpsIdle /\ RaceIdle /\ AppIdle
    /\ HandlerInit
    /\ \A p \in ProviderNames : cred[p] \in {"None", "good"}
    /\ provider_preference \in {"auto", "openai"}
    /\ requests = [r \in Requests |-> RequestIdle]
exceptConc == <<storeVars, callVars, opVars, threads, appVars>>
SpecConcNext ==
    \/ \E r \in Requests, s \in [ProviderNames -> ConcScripts] :
          ReqStart(r, s) /\ UNCHANGED exceptConc
    \/ \E r \in Requests : ReqSetProvider(r) /\ UNCHANGED exceptConc
    \/ \E r \in Requests : ReqSetModel(r) /\ UNCHANGED exceptConc
    \/ \E r \in Requests : ReqCreate(r) /\ UNCHANGED exceptConc
    \/ \E r \in Requests : ReqNext(r) /\ UNCHANGED exceptConc
    \/ \E r \in Requests : ReqClearProvider(r) /\ UNCHANGED exceptConc
    \/ \E r \in Requests : ReqClearModel(r) /\ UNCHANGED exceptConc
    \/ \E r \in Requests : ReqSentinelProvider(r) /\ UNCHANGED exceptConc
    \/ \E r \in Requests : ReqSentinelModel(r) /\ UNCHANGED exceptConc
    \/ \E r \in Requests : ReqReadProvider(r) /\ UNCHANGED exceptConc
    \/ \E r \in Requests : ReqReadModel(r) /\ UNCHANGED exceptConc
SpecConc == SpecConcInit /\ [][SpecConcNext]_vars

\* A store as get_or_create_session leaves it (directive set) or as the
\* constructor leaves it, and the three threads.
SpecRaceInit ==
    /\ HandlerIdle /\ CallIdle /\ OpsIdle /\ ConcIdle /\ AppIdle
    /\ max_history \in -1..MaxPairs
    /\ messages = <<>>
    /\ log = <<>>
    /\ system_message \in {<<>>} \cup {<<Msg("system", c)>> : c \in Contents}
    /\ threads = [t \in Writers \cup {Reader} |->
                    IF t = Reader THEN ReaderIdle ELSE WriterIdle]
exceptRace == <<handlerVars, callVars, opVars, requests, appVars>>
SpecRaceNext ==
    \/ \E w \in Writers, r \in Roles, c \in Contents :
          WriterBuild(w, r, c) /\ UNCHANGED exceptRace
    \/ \E w \in Writers : WriterAppend(w) /\ UNCHANGED exceptRace
    \/ ReaderStart /\ UNCHANGED exceptRace
    \/ ReaderTest /\ UNCHANGED exceptRace
    \/ ReaderAppendDirective /\ UNCHANGED exceptRace
    \/ ReaderExtend /\ UNCHANGED exceptRace
    \/ ReaderReturn /\ UNCHANGED exceptRace
SpecRace == SpecRaceInit /\ [][SpecRaceNext]_vars

\* The chat route on a session as get_or_create_session leaves it, the
\* handler built from each combination of no key / a working key.
SpecChatInit ==
    /\ CallIdle /\ OpsIdle /\ ConcIdle /\ RaceIdle /\ SessionsIdle
    /\ HandlerInit
    /\ \A p \in ProviderNames : cred[p] \in {"None", "good"}
    /\ provider_preference \in {"auto", "openai"}
    /\ max_history \in 0..SessionPairs
    /\ messages = <<>>
    /\ log = <<>>
    /\ system_message = <<Msg("system", "a")>>
    /\ route = RouteRest
exceptChat == <<opVars, requests, threads, conversation_sessions, stores, workers>>
SpecChatNext ==
    \/ \E u \in UserMessages, st \in BOOLEAN :
          /\ ChatPrepare(u, st)
          /\ UNCHANGED <<handlerVars, callVars, exceptChat>>
    \/ ChatAppendFileContext /\ UNCHANGED <<handlerVars, callVars, exceptChat>>
    \/ \E b \in [ProviderNames -> Outcomes] :
          ChatGetResponse(b) /\ UNCHANGED <<storeVars, exceptChat>>
    \/ /\ route.pc = "in_call"
       /\ GetResponseTry
       /\ UNCHANGED <<storeVars, route, exceptChat>>
    \/ /\ route.pc = "in_call"
       /\ GetResponseAllFailed
       /\ UNCHANGED <<storeVars, route, exceptChat>>
    \/ ChatRespond /\ UNCHANGED <<handlerVars, exceptChat>>
    \/ \E s \in [ProviderNames -> ChatScripts] :
          GenerateStart(s) /\ UNCHANGED <<storeVars, exceptChat>>
    \/ GenerateOpen /\ UNCHANGED <<storeVars, exceptChat>>
    \/ GenerateNext /\ UNCHANGED <<storeVars, exceptChat>>
    \/ GenerateAllFailed /\ UNCHANGED <<storeVars, exceptChat>>
    \/ GenerateCancel /\ UNCHANGED <<storeVars, exceptChat>>
    \/ GenerateAbandoned /\ UNCHANGED <<storeVars, exceptChat>>
    \/ GenerateEnd /\ UNCHANGED exceptChat
SpecChat == SpecChatInit /\ [][SpecChatNext]_vars

\* Requests of two session ids on two threads, no session registered yet.
SpecSessionsInit ==
    /\ StoreIdle /\ HandlerIdle /\ CallIdle /\ OpsIdle /\ ConcIdle /\ RaceIdle
    /\ RouteIdle
    /\ conversation_sessions = <<>>
    /\ stores = <<>>
    /\ workers = [w \in WorkerIds |-> WorkerRest]
exceptSessions ==
    <<storeVars, handlerVars, callVars, opVars, requests, threads, route>>
SpecSessionsNext ==
    \/ \E w \in WorkerIds, sid \in SessionIds, kind \in RouteKinds :
          GocCheck(w, sid, kind) /\ UNCHANGED exceptSessions
    \/ \E w \in WorkerIds : GocConstruct(w) /\ UNCHANGED exceptSessions
    \/ \E w \in WorkerIds : GocSetDirective(w) /\ UNCHANGED exceptSessions
    \/ \E w \in WorkerIds : GocRegister(w) /\ UNCHANGED exceptSessions
    \/ \E w \in WorkerIds : GocFetch(w) /\ UNCHANGED exceptSessions
    \/ \E w \in WorkerIds : RouteCall(w) /\ UNCHANGED exceptSessions
    \/ \E w \in WorkerIds : RouteDone(w) /\ UNCHANGED exceptSessions
SpecSessions == SpecSessionsInit /\ [][SpecSessionsNext]_vars

(***************************************************************************)
(* Properties of the MessageStore                                          *)
(***************************************************************************)
LastN(s, n) == IF Len(s) <= n THEN s ELSE SubSeq(s, Len(s) - n + 1, Len(s))

NonSystemOnly(s) == \A i \in 1..Len(s) : s[i].role # "system"

\* C1: in a store built with max_history = n >= 1, once 2n + k (k > 0)
\* non-system messages have been appended to an empty history, the history
\* holds exactly 2n entries: the last 2n appended, in the order appended.
C1_KeepsLast2n ==
    (max_history >= 1 /\ NonSystemOnly(log) /\ Len(log) > 2 * max_history)
        => /\ Len(messages) = 2 * max_history
           /\ messages = SubSeq(log, Len(log) - 2 * max_history + 1, Len(log))

C1_Witness ==
    /\ max_history = 2
    /\ NonSystemOnly(log)
    /\ Len(log) = 5
    /\ log[1] # log[2]
    /\ messages = SubSeq(log, 2, 5)

\* C2: in every reachable state get_messages() is the primary directive (when
\* one is set) as its first element followed by the history in insertion
\* order; with no directive set its first element, if any, is the oldest
\* surviving history entry.
C2_SnapshotShape ==
    StoreConstructed =>
        LET g == get_messages
            h == LastN(log, Capacity)
        IN /\ system_message # <<>> =>
                /\ Len(g) = Len(h) + 1
                /\ g[1] = system_message[1]
                /\ \A i \in 1..Len(h) : g[i + 1] = h[i]
           /\ system_message = <<>> =>
                /\ g = h
                /\ Len(log) > 0 /\ Capacity > 0 =>
                     g[1] = log[IF Len(log) > Capacity
                                THEN Len(log) - Capacity + 1 ELSE 1]

C2_Witness ==
    /\ system_message # <<>>
    /\ max_history = 1
    /\ Len(log) = 3
    /\ log[2] # log[3]
    /\ get_messages = <<system_message[1], log[2], log[3]>>

\* C3: extra system notes (add_system_message) sit in the history and are
\* evicted oldest-first like every other entry; the primary directive is
\* never evicted (no step that changes the history changes it, and once set
\* it stays set); with a directive set, it is element 1 of get_messages()
\* and every note comes after it.
C3_NotesInHistory ==
    StoreConstructed =>
        /\ messages = LastN(log, Capacity)
        /\ system_message # <<>> =>
             /\ get_messages[1] = system_message[1]
             /\ \A i \in 1..Len(messages) : get_messages[i + 1] = messages[i]

C3_DirectiveStays ==
    /\ system_message # <<>> => system_message' # <<>>
    /\ (messages' # messages \/ log' # log) => system_message' = system_message

C3_NotesEvictedDirectiveKept ==
    []C3_NotesInHistory /\ [][C3_DirectiveStays]_vars

C3_Witness ==
    /\ max_history = 1
    /\ system_message # <<>>
    /\ Len(log) = 4
    /\ log[1].role = "system"
    /\ log[3].role = "system"
    /\ log[4].role = "user"
    /\ get_messages = <<system_message[1], log[3], log[4]>>

(***************************************************************************)
(* Properties of the ChatHandler                                           *)
(***************************************************************************)
\* The adapters get_response can use, in the order it resolves.
Order == get_provider_order

\* Index in seq of the first adapter whose completion call succeeds, 0 if none.
FirstOk(seq) ==
    IF \E i \in 1..Len(seq) : behaviour[seq[i]] = "ok"
    THEN CHOOSE i \in 1..Len(seq) :
            /\ behaviour[seq[i]] = "ok"
            /\ \A j \in 1..(i - 1) : behaviour[seq[j]] # "ok"
    ELSE 0

\* C4: when an adapter of the resolved order succeeds after zero or more
\* earlier ones failed, get_response returns the success result of the first
\* adapter in resolved order that succeeds, no exception leaves the call, and
\* no adapter after that one is called.
C4_FirstSuccessReturned ==
    (pc = "returned" /\ FirstOk(Order) > 0) =>
        LET k == FirstOk(Order)
        IN /\ ~escaped
           /\ result.success = TRUE
           /\ result.provider = Order[k]
           /\ result = SuccessResult(Order[k])
           /\ calls = SubSeq(Order, 1, k)

C4_Witness ==
    /\ pc = "returned"
    /\ Order = <<"groq", "openai">>
    /\ behaviour["groq"] # "ok"
    /\ behaviour["openai"] = "ok"
    /\ result.success = TRUE
    /\ result.provider = "openai"
    /\ calls = <<"groq", "openai">>

\* C5: when every usable adapter fails, get_response returns (does not raise)
\* success = FALSE with the apology as message and, as error, the
\* "<adapter>: <msg>" entries of all usable adapters in resolved order joined
\* by " | ".
ErrorEntry(p) == p \o ": " \o behaviour[p]

ExpectedErrorText(seq) ==
    CASE Len(seq) = 1 -> ErrorEntry(seq[1])
      [] Len(seq) = 2 -> ErrorEntry(seq[1]) \o " | " \o ErrorEntry(seq[2])
      [] OTHER -> ""

C5_AllFailedAggregated ==
    (pc = "returned" /\ FirstOk(Order) = 0) =>
        /\ ~escaped
        /\ result.success = FALSE
        /\ result.message = Apology
        /\ result.error = ExpectedErrorText(Order)
        /\ Len(errors) = Len(providers)
        /\ calls = Order

C5_Witness ==
    /\ pc = "returned"
    /\ provider_preference = "openai"
    /\ behaviour["groq"] = "timeout"
    /\ behaviour["openai"] = "rate limit"
    /\ result.success = FALSE
    /\ result.error = "openai: rate limit | groq: timeout"

\* C6: when the preference names a registered, usable adapter, the resolved
\* order is that adapter followed by the other usable adapters in
\* registration order; with both configured and preference openai it is
\* <<openai, groq>>.
C6_PreferredFirst ==
    (handler_ok /\ provider_preference \in Range(providers)) =>
        LET Others(p) == p # provider_preference
        IN /\ Order[1] = provider_preference
           /\ Tail(Order) = SelectSeq(providers, Others)
           /\ (Range(providers) = ProviderNames /\ provider_preference = "openai")
                => Order = <<"openai", "groq">>
           /\ pc # "idle" => provider_order = Order

C6_Witness ==
    /\ Range(providers) = ProviderNames
    /\ provider_preference = "openai"
    /\ pc = "batch_loop"
    /\ provider_order = <<"openai", "groq">>

\* C7: when the preference is auto or names no registered, usable adapter,
\* the resolved order holds the usable adapters with every groq adapter
\* before every openai adapter, adapters of equal rank in registration order;
\* with both configured it is <<groq, openai>>.
RegistrationIndex(p) == CHOOSE i \in 1..Len(providers) : providers[i] = p

C7_AutoGroqFirst ==
    (handler_ok /\ provider_preference \notin Range(providers)) =>
        /\ Len(Order) = Len(providers)
        /\ Range(Order) = Range(providers)
        /\ \A i, j \in 1..Len(Order) :
              i < j => ~(Order[i] = "openai" /\ Order[j] = "groq")
        /\ \A i, j \in 1..Len(Order) :
              (i < j /\ GroqFirstKey(Order[i]) = GroqFirstKey(Order[j]))
                 => RegistrationIndex(Order[i]) < RegistrationIndex(Order[j])
        /\ Range(providers) = ProviderNames => Order = <<"groq", "openai">>
        /\ pc # "idle" => provider_order = Order

C7_Witness ==
    /\ Range(providers) = ProviderNames
    /\ provider_preference = "claude"
    /\ pc = "batch_loop"
    /\ provider_order = <<"groq", "openai">>

\* C8: when the consumer closes the fragment sequence while an adapter stream
\* is in flight, the provider stream is released: close() has been called on
\* it exactly once and no stream stays open.
C8_CancelReleasesStream ==
    pc = "cancelled" => (close_calls = 1 /\ stream_open = {})

\* The fragments an adapter's stream hands over in its first k chunks.
RECURSIVE Delivered(_, _)
Delivered(p, k) ==
    IF k = 0 THEN <<>>
    ELSE Delivered(p, k - 1)
           \o (IF ChunkContent(script, p, k) = NoneContent THEN <<>>
               ELSE <<Fragment(p, ChunkContent(script, p, k))>>)

\* The fragments of the adapters provider_order[1..i], each stream taken whole.
RECURSIVE DeliveredByFirst(_)
DeliveredByFirst(i) ==
    IF i = 0 THEN <<>>
    ELSE DeliveredByFirst(i - 1)
           \o Delivered(provider_order[i], script[provider_order[i]].n)

InStream == pc \in {"streaming", "suspended", "cancelled"}

\* C9: a provider stream that raises after k >= 0 fragments makes
\* stream_response clear the scratch provider/model and request a fresh
\* stream from the next adapter in resolved order; the consumer has the k
\* fragments (kept, not repeated) followed by the next adapter's fragments
\* from its first one.
C9_Transcript ==
    /\ InStream =>
         yielded = DeliveredByFirst(idx - 1) \o Delivered(provider_order[idx], pos)
    /\ (pc = "stream_loop" /\ idx > 1) =>
         /\ yielded = DeliveredByFirst(idx - 1)
         /\ current_provider = "None"
         /\ current_model = "None"

C9_FreshStream ==
    /\ (pc \in {"streaming", "suspended"} /\ pc' = "stream_loop") =>
         /\ idx' = idx + 1
         /\ yielded' = yielded
         /\ current_provider' = "None"
         /\ current_model' = "None"
    /\ (pc = "stream_loop" /\ pc' = "streaming") =>
         /\ idx' = idx
         /\ pos' = 0
         /\ yielded' = yielded
         /\ calls' = Append(calls, provider_order[idx])
         /\ current_provider' = provider_order[idx]
         /\ current_model' = ModelOf(provider_order[idx])

C9_FallbackAfterPartialStream ==
    []C9_Transcript /\ [][C9_FreshStream]_vars

C9_Witness ==
    /\ pc = "suspended"
    /\ provider_order = <<"groq", "openai">>
    /\ idx = 2
    /\ script["groq"].end = "raise"
    /\ yielded = <<Fragment("groq", "groq1"), Fragment("groq", "groq2"),
                   Fragment("openai", "openai1")>>
    /\ current_provider = "openai"

AdapterFragments ==
    LET FromAdapter(f) == f.from \in ProviderNames
    IN SelectSeq(yielded, FromAdapter)

SentinelRecorded == current_provider = "error" /\ current_model = "none"

EveryAdapterRaised ==
    \A i \in 1..Len(provider_order) : script[provider_order[i]].end # "ok"

C11_LabelIsOwnProvider ==
    \A r \in Requests :
        requests[r].pc = "ended" => requests[r].label = requests[r].served

\* C12: concurrent add_message calls on one store each append exactly one
\* complete entry (the history is the last entries of the appends made, one
\* per completed call), and a get_messages() that races them returns the
\* message list of a state the store was in during the call: before or after
\* each append, never a list holding part of an entry.
CompleteEntries ==
    {Msg(r, c) : r \in Roles \ {"system"}, c \in Contents}

C12_AtomicAppendAndSnapshot ==
    threads # <<>> =>
        /\ messages = LastN(log, Capacity)
        /\ Len(log) = threads["w1"].completed + threads["w2"].completed
        /\ \A i \in 1..Len(messages) : messages[i] \in CompleteEntries
        /\ threads[Reader].pc = "done" =>
             /\ threads[Reader].result \in threads[Reader].seen
             /\ \A i \in 1..Len(threads[Reader].result) :
                   threads[Reader].result[i] \in
                       CompleteEntries \cup Range(system_message)

C12_Witness ==
    /\ threads # <<>>
    /\ threads[Reader].pc = "done"
    /\ Cardinality(threads[Reader].seen) = 3
    /\ threads["w1"].completed = 1
    /\ threads["w2"].completed = 1
    /\ system_message # <<>>
    /\ threads[Reader].result = system_message \o log

(***************************************************************************)
(* Construction                                                            *)
(***************************************************************************)
\* C13: constructing a MessageStore with max_history <= 0 fails and yields
\* no store.
C13_NonPositivePairsRejected ==
    max_history <= 0 => ~StoreConstructed

\* C14: ChatHandler.__init__ fails exactly when no adapter is usable after
\* registration (no key given, or every given key's client failed to
\* initialise); an adapter that fails to initialise next to a usable one is
\* left out of self.providers and construction succeeds.
NoUsableAdapter ==
    \A p \in ProviderNames : cred[p] \in {"None", "empty"} \/ cred[p] = "bad"

C14_FailsIffNoUsableAdapter ==
    cred # <<>> =>
        /\ ~handler_ok <=> NoUsableAdapter
        /\ \A p, q \in ProviderNames :
              (cred[p] = "bad" /\ cred[q] = "good") =>
                  /\ handler_ok
                  /\ p \notin Range(providers)
                  /\ q \in Range(providers)

C14_Witness ==
    /\ cred # <<>>
    /\ cred["openai"] = "bad"
    /\ cred["groq"] = "good"
    /\ handler_ok
    /\ providers = <<"groq">>
    /\ pc = "returned"

(***************************************************************************)
(* Effect of each store operation                                          *)
(***************************************************************************)
\* C15: clear() leaves the history empty and the primary directive as it
\* was; get_messages() is then the directive alone, or the empty list.
C15_ClearStep ==
    last_op' = <<"clear">> =>
        /\ messages' = <<>>
        /\ system_message' = system_message
        /\ get_messages' = system_message
        /\ Len(get_messages') <= 1

C15_ClearKeepsDirective == [][C15_ClearStep]_vars

C15_Witness ==
    /\ last_op = <<"clear">>
    /\ max_history = 1
    /\ get_messages = <<Msg("system", "b")>>

\* C16: set_system_message(c) replaces the one primary directive and leaves
\* the history as it was; called again with the same content it changes
\* nothing; get_messages() then holds exactly one directive, with content c,
\* in front of the history.
C16_SetStep ==
    \A c \in Contents :
        last_op' = <<"set_system_message", c>> =>
            /\ system_message' = <<Msg("system", c)>>
            /\ messages' = messages
            /\ max_history' = max_history
            /\ last_op = <<"set_system_message", c>> =>
                  <<messages', system_message', max_history'>>
                      = <<messages, system_message, max_history>>
            /\ get_messages' = <<Msg("system", c)>> \o messages
            /\ Len(get_messages') = Len(messages) + 1

C16_SetReplacesDirective == [][C16_SetStep]_vars

C16_Witness ==
    /\ last_op = <<"set_system_message", "b">>
    /\ Len(messages) = 2
    /\ get_messages = <<Msg("system", "b")>> \o messages
    /\ returned = <<"None">>

\* C17: add_message("system", c) is a set_system_message(c) step: the
\* directive becomes c, the history keeps its entries and its length, and
\* nothing is evicted even when the history is full.
C17_AddSystemStep ==
    \A c \in Contents :
        last_op' = <<"add_message", "system", c>> =>
            /\ SetSystemMessage(c)
            /\ system_message' = <<Msg("system", c)>>
            /\ messages' = messages
            /\ Len(messages') = Len(messages)

C17_AddSystemIsSetDirective == [][C17_AddSystemStep]_vars

C17_Witness ==
    /\ last_op = <<"add_message", "system", "b">>
    /\ max_history = 1
    /\ Len(messages) = Capacity
    /\ Len(log) = 3
    /\ system_message = <<Msg("system", "b")>>

\* C18: get_messages() writes neither the directive nor the history, and a
\* second call right after the first returns an equal sequence.
C18_GetStep ==
    last_op' = <<"get_messages">> =>
        /\ storeVars' = storeVars
        /\ returned' = get_messages
        /\ last_op = <<"get_messages">> => returned' = returned

C18_GetMessagesPure == [][C18_GetStep]_vars

C18_Witness ==
    /\ last_op = <<"get_messages">>
    /\ system_message # <<>>
    /\ Len(log) = 3
    /\ max_history = 1
    /\ returned = <<system_message[1], log[2], log[3]>>

\* C19: in every state reachable through add_message, add_system_message,
\* set_system_message and clear on a store built with max_history = n, the
\* history holds between 0 and 2n entries and get_conversation_count() is
\* that number of entries divided by 2, rounded down.
C19_LengthBounded ==
    StoreConstructed =>
        /\ 0 <= Len(messages)
        /\ Len(messages) <= 2 * max_history
        /\ 2 * get_conversation_count <= Len(messages)
        /\ Len(messages) < 2 * get_conversation_count + 2

C19_Witness ==
    /\ max_history = 2
    /\ Len(log) = 5
    /\ Len(messages) = 4
    /\ get_conversation_count = 2

(***************************************************************************)
(* One pass over the providers                                             *)
(***************************************************************************)
InCall == pc \in {"batch_loop", "stream_loop", "streaming", "suspended"}

\* What is left of a call: the adapters not yet tried, and within an open
\* stream the chunks not yet received.
PassWidth == MaxChunks + 2

WorkLeft ==
    IF pc \in {"batch_loop", "stream_loop"}
    THEN (Len(provider_order) - idx + 1) * PassWidth + (PassWidth - 1)
    ELSE IF pc \in {"streaming", "suspended"}
    THEN (Len(provider_order) - idx + 1) * PassWidth
            + (script[provider_order[idx]].n - pos)
    ELSE 0

\* C20: a get_response or stream_response call makes one pass over the
\* resolved order: the adapters it has invoked are the first ones of the
\* resolved order, each once, so never more than there are usable adapters;
\* every step of a call leaves less work, and a call that has not ended can
\* always take a step, so the call ends.
C20_CallsArePrefix ==
    /\ pc # "idle" =>
         /\ provider_order = Order
         /\ Len(calls) <= Len(providers)
         /\ calls = SubSeq(provider_order, 1, Len(calls))
         /\ \A i, j \in 1..Len(calls) : i # j => calls[i] # calls[j]
    /\ InCall =>
         /\ WorkLeft > 0
         /\ ENABLED (GetResponseTry \/ GetResponseAllFailed \/ StreamOpen
                       \/ StreamNext \/ StreamAllFailed)

C20_WorkShrinks ==
    InCall => (WorkLeft' < WorkLeft /\ WorkLeft' >= 0)

C20_SingleLinearPass ==
    []C20_CallsArePrefix /\ [][C20_WorkShrinks]_vars

C20_Witness ==
    /\ pc = "done"
    /\ provider_order = <<"groq", "openai">>
    /\ calls = <<"groq", "openai">>
    /\ script["groq"].end = "raise"
    /\ script["groq"].n = 2
    /\ script["openai"].end = "ok"
    /\ Len(yielded) = 4

C20_WitnessBatch ==
    /\ pc = "returned"
    /\ calls = <<"groq", "openai">>
    /\ result.success = FALSE

(***************************************************************************)
(* Further properties of the ChatHandler                                   *)
(***************************************************************************)
\* The adapters that have a client: the usable ones.
UsableAdapters == {p \in ProviderNames : ClientOf(cred, p)}

IsPermutationOf(seq, S) ==
    /\ Len(seq) = Cardinality(S)
    /\ \A p \in S : Cardinality({i \in 1..Len(seq) : seq[i] = p}) = 1
    /\ \A i \in 1..Len(seq) : seq[i] \in S

\* C23: for every combination of registered adapters and every preference
\* (auto, a registered name, an unregistered name, any other string)
\* _get_provider_order returns a permutation of the usable adapters: each
\* usable adapter exactly once and no adapter that is not usable; so is the
\* order a call in progress iterates.
C23_OrderIsPermutation ==
    /\ IsPermutationOf(get_provider_order, UsableAdapters)
    /\ pc = "batch_loop" => IsPermutationOf(provider_order, UsableAdapters)

C23_Witness ==
    /\ pc = "batch_loop"
    /\ provider_preference = "openai"
    /\ UsableAdapters = ProviderNames
    /\ provider_order = <<"openai", "groq">>

\* C27: in stream_response, once an adapter's stream has been opened and
\* exhausted without raising, no further adapter is attempted and the generic
\* error fragment is not emitted, however many fragments (possibly none) that
\* stream produced; the generic error fragment is emitted exactly when every
\* adapter of the resolved order raised, and then once, as the last fragment.
ErrorFragments ==
    LET IsError(f) == f = Fragment("dispatcher", ErrorFragment)
    IN SelectSeq(yielded, IsError)

StreamExhausted ==
    /\ pc = "done"
    /\ idx <= Len(provider_order)

C27_ExhaustedEndsCall ==
    /\ StreamExhausted =>
          /\ script[provider_order[idx]].end = "ok"
          /\ pos = script[provider_order[idx]].n
          /\ calls = SubSeq(provider_order, 1, idx)
          /\ ErrorFragments = <<>>
          /\ yielded = AdapterFragments
    /\ pc = "done" =>
          /\ ErrorFragments # <<>> <=> EveryAdapterRaised
          /\ ErrorFragments # <<>> =>
                /\ Len(ErrorFragments) = 1
                /\ yielded[Len(yielded)] = Fragment("dispatcher", ErrorFragment)
                /\ calls = provider_order
    /\ pc \in {"stream_loop", "streaming", "suspended", "cancelled"} =>
          ErrorFragments = <<>>

C27_ExhaustedStep ==
    StreamExhausted => (pc' = "idle" /\ calls' = <<>>)

C27_ExhaustedStreamIsFinal ==
    []C27_ExhaustedEndsCall /\ [][C27_ExhaustedStep]_vars

C27_Witness ==
    /\ StreamExhausted
    /\ Len(provider_order) = 2
    /\ idx = 1
    /\ script[provider_order[1]].n = 0
    /\ script[provider_order[2]].end = "ok"
    /\ yielded = <<>>
    /\ calls = <<provider_order[1]>>

(***************************************************************************)
(* Properties of the chat route                                            *)
(***************************************************************************)
LastOf(s) == IF s = <<>> THEN <<>> ELSE <<s[Len(s)]>>

UserTurn == Msg("user", route.user_message)

BatchRequestPrepared ==
    /\ route.pc \in {"dispatch", "in_call"}
    /\ ~route.stream

\* The step in which chat() handles the dict get_response returned.
BatchSucceeded ==
    /\ route.pc = "in_call"
    /\ pc = "returned"
    /\ result.success = TRUE
    /\ route'.pc = "idle"

BatchFailed ==
    /\ route.pc = "in_call"
    /\ pc = "returned"
    /\ result.success = FALSE
    /\ route'.pc = "idle"

SnapshotAfterUserTurn(covered) ==
    (BatchRequestPrepared /\ covered) =>
        /\ LastOf(log) = <<UserTurn>>
        /\ Capacity > 0 => LastOf(route.messages) = <<UserTurn>>

ReplyAfterUserTurn(covered) ==
    (BatchSucceeded /\ covered) =>
        /\ LastOf(log) = <<UserTurn>>
        /\ log' = Append(log, Msg("assistant", result.message))
        /\ Capacity >= 2 =>
              LastN(messages', 2) = <<UserTurn, Msg("assistant", result.message)>>

\* C22 as stated: for a non-streamed chat request whose dispatch succeeds, the
\* user turn is appended to the history before the snapshot for the
\* dispatcher is taken and the reply is appended after the dispatcher
\* returns; absent eviction the history ends with the user message followed
\* by the reply.
C22_UserTurnThenReply ==
    []SnapshotAfterUserTurn(TRUE) /\ [][ReplyAfterUserTurn(TRUE)]_vars

\* C22 amended: the same, for a request whose message is not a file notice
\* (does not start with "I've uploaded a file named").
C22_PlainUserTurnThenReply ==
    /\ []SnapshotAfterUserTurn(~route.is_file_message)
    /\ [][ReplyAfterUserTurn(~route.is_file_message)]_vars

C22_Witness ==
    /\ route.pc = "idle"
    /\ route.status = 200
    /\ ~route.stream
    /\ ~route.is_file_message
    /\ max_history = 1
    /\ messages = <<UserTurn, Msg("assistant", "reply of groq")>>
    /\ log = messages

\* stream_response's fragments as generate() receives them, joined.
RECURSIVE ConcatText(_)
ConcatText(fs) ==
    IF fs = <<>> THEN "" ELSE fs[1].text \o ConcatText(Tail(fs))

StreamConsumed ==
    /\ route.pc = "in_stream"
    /\ pc = "done"
    /\ route'.pc = "idle"

C25_OneEntry ==
    /\ StreamConsumed =>
          LET entry == Msg("assistant", ConcatText(yielded))
          IN /\ log' = Append(log, entry)
             /\ messages' = DequeAppend(messages, entry, Capacity)
             /\ system_message' = system_message
    /\ (route.pc = "in_stream" /\ ~StreamConsumed) => storeVars' = storeVars
    /\ (route.pc = "idle" /\ route'.stream) =>
          \A i \in (Len(log) + 1)..Len(log') : log'[i].role = "user"

\* C25: a streamed chat request consumed to the end appends exactly one
\* assistant entry to the session history; its content is the concatenation,
\* in order, of every fragment yielded during the request, fragments of an
\* abandoned provider stream and the generic error fragment included.
C25_StreamedReplyIsAllFragments == [][C25_OneEntry]_vars

C25_Witness ==
    /\ route.pc = "idle"
    /\ route.status = 200
    /\ route.stream
    /\ LastOf(log) = <<Msg("assistant", "groq1" \o ErrorFragment)>>

\* C26 as stated: when get_response returns success = false for a
\* non-streamed chat request, no assistant entry is appended and the user
\* message appended at the start of the request is not removed: the history
\* ends with that unanswered user turn.
C26_Step ==
    BatchFailed =>
        /\ storeVars' = storeVars
        /\ LastOf(messages') = <<UserTurn>>

C26_FailureLeavesUserTurnLast == [][C26_Step]_vars

\* C26 amended: when get_response returns success = false, the store is left
\* as it is (no assistant entry, nothing removed); for a message that is not
\* a file notice the user turn is the last entry appended to the history, and
\* the last entry of the history when the store's capacity is not zero.
C26_AmendedStep ==
    BatchFailed =>
        /\ storeVars' = storeVars
        /\ ~route.is_file_message =>
              /\ LastOf(log') = <<UserTurn>>
              /\ Capacity > 0 => LastOf(messages') = <<UserTurn>>

C26_FailureLeavesStore == [][C26_AmendedStep]_vars

C26_Witness ==
    /\ route.pc = "idle"
    /\ route.status = 500
    /\ ~route.is_file_message
    /\ max_history = 1
    /\ messages = <<Msg("user", "b")>>
    /\ route.user_message = "b"

\* C28: the list get_messages() returns is independent of the store:
\* appending to it, as chat() does with the file context, changes neither the
\* store's history nor what a later get_messages() returns.
C28_AppendStep ==
    (route.pc = "context" /\ route'.pc = "dispatch") =>
        /\ route'.messages = Append(route.messages, FileContext)
        /\ storeVars' = storeVars
        /\ get_messages' = get_messages

C28_NoContextInStore ==
    /\ \A i \in 1..Len(messages) : messages[i] # FileContext
    /\ \A i \in 1..Len(get_messages) : get_messages[i] # FileContext
    /\ (route.pc # "idle" /\ ~route.is_file_message) =>
          \A i \in 1..Len(route.messages) : route.messages[i] # FileContext

SessionView(sessions, objects, s) ==
    IF s \in DOMAIN sessions
    THEN <<StoreGetMessages(objects[sessions[s]])>>
    ELSE <<>>

\* The thread w takes the step, on behalf of session s.
StepOf(w, s) ==
    /\ workers'[w] # workers[w]
    /\ workers'[w].sid = s

C21_DistinctInstances ==
    \A s, t \in Registered :
        s # t => conversation_sessions[s] # conversation_sessions[t]

C21_OwnSessionOnly ==
    /\ \A s \in SessionIds :
          SessionView(conversation_sessions', stores', s)
                # SessionView(conversation_sessions, stores, s)
             => \E w \in WorkerIds : StepOf(w, s)
    /\ \A i \in 1..Len(stores) :
          stores'[i] # stores[i] =>
             \E w \in WorkerIds :
                /\ workers'[w] # workers[w]
                /\ i \in {workers[w].store, workers[w].message_store}
                /\ \A s \in Registered :
                      conversation_sessions[s] = i => workers[w].sid = s

\* C21: what is done on one session's store (add, extra note, set directive,
\* clear), and the requests served for one session, never change what
\* get_messages() returns for another session: distinct session ids map to
\* distinct store objects, and a step changes only objects of the session it
\* is taken for.
C21_SessionsIsolated ==
    []C21_DistinctInstances /\ [][C21_OwnSessionOnly]_vars

C21_Witness ==
    /\ Registered = SessionIds
    /\ \A w \in WorkerIds : Worker(w).pc = "idle"
    /\ StoreGetMessages(stores[conversation_sessions["s1"]]) =
          <<Msg("system", SYSTEM_MESSAGE),
            Msg("user", "s1/1"), Msg("assistant", "reply to s1/1")>>
    /\ StoreGetMessages(stores[conversation_sessions["s2"]]) =
          <<Msg("system", SYSTEM_MESSAGE)>>
    /\ stores[conversation_sessions["s2"]].log = <<>>
    /\ Worker(2).sid = "s2"

\* C24: when two requests carrying the same, not yet registered session id
\* run get_or_create_session concurrently, both operate on the same
\* MessageStore object, the registered one, so that no message either of them
\* appends sits in an object that is not the session's store.
C24_SameStoreForSameSession ==
    /\ \A w \in WorkerIds :
          Worker(w).pc = "act" =>
             Worker(w).store = conversation_sessions[Worker(w).sid]
    /\ \A i \in 1..Len(stores) :
          stores[i].log # <<>> =>
             \E s \in Registered : conversation_sessions[s] = i
====
